---- MODULE Spec2Model ----
(***************************************************************************)
(* A model of the terrors error library: the Error entity and its causal   *)
(* chain, the retryable/unexpected classification, the code matcher and    *)
(* the wire codec (Marshal / Unmarshal).                                   *)
(*                                                                         *)
(* Go strings are modelled as sequences of symbols (a symbol is an         *)
(* indivisible run of characters), so that concatenation, strings.Join and *)
(* strings.HasPrefix are computed rather than assumed.  Go pointers to     *)
(* Error are references into a heap of Error objects; *bool and            *)
(* *pe.BoolValue are "nil", "true" or "false"; a map is a set of           *)
(* <<key, value>> pairs together with its nil-ness.                        *)
(***************************************************************************)
EXTENDS Integers, Sequences, FiniteSets, TLC

VARIABLES heap, op, arg, in, ret, out, text, wire, sent, link, depth, threads

vars == <<heap, op, arg, in, ret, out, text, wire, sent, link, depth, threads>>

(***************************************************************************)
(* Bounds of the model.                                                    *)
(***************************************************************************)
\* the number of Error objects a behaviour allocates
MaxErrs == 2

(***************************************************************************)
(* Strings.                                                                *)
(***************************************************************************)
EmptyStr == <<>>
Colon == <<": ">>
Dot == <<".">>

ErrBadRequest == <<"bad_request">>
ErrInternalService == <<"internal_service">>
ErrNotFound == <<"not_found">>
ErrTimeout == <<"timeout">>
ErrUnknown == <<"unknown">>
ErrRateLimited == <<"rate_limited">>

retryableCodes == <<ErrInternalService, ErrTimeout, ErrUnknown, ErrRateLimited>>

\* strings.HasPrefix
HasPrefix(s, prefix) ==
    /\ Len(prefix) <= Len(s)
    /\ SubSeq(s, 1, Len(prefix)) = prefix

\* strings.Join
RECURSIVE Join(_, _)
Join(parts, sep) ==
    IF parts = <<>> THEN EmptyStr
    ELSE IF Len(parts) = 1 THEN parts[1]
    ELSE parts[1] \o sep \o Join(Tail(parts), sep)

(***************************************************************************)
(* 32-bit integers of the wire record.                                     *)
(***************************************************************************)
MaxInt32 == 2147483647
MinInt32 == (0 - MaxInt32) - 1

\* int32(n + 1) for an n in the int32 range: the conversion wraps around
Int32Succ(n) == IF n = MaxInt32 THEN MinInt32 ELSE n + 1

(***************************************************************************)
(* Pointers and maps.                                                      *)
(***************************************************************************)
NilBool == "nil"

\* &b for a bool b, and *p for a non-nil p
AddrOf(b) == IF b THEN "true" ELSE "false"
Deref(p) == p = "true"

\* a map value is a reference: id tells which map it refers to, and two
\* values with the same id are the same map.  The map that make() or a
\* literal creates for the Error allocated at index i has id i; the maps
\* that callers bring have ids above the heap's indexes.
NilMap == [isNil |-> TRUE, id |-> 0, kv |-> {}]
MakeMap(id, pairs) == [isNil |-> FALSE, id |-> id, kv |-> pairs]
CallerMap(n, pairs) == MakeMap(MaxErrs + n, pairs)
Keys(m) == {p[1] : p \in m.kv}

\* for k, v := range src { dst[k] = v }
CopyInto(dst, src) ==
    {p \in dst : p[1] \notin {q[1] : q \in src}} \cup src

(***************************************************************************)
(* References to errors: nil, a *Error in the heap, or a foreign error     *)
(* (any other implementation of the error interface), which is known by    *)
(* the message its Error() renders and by whether it has a Retryable()     *)
(* method ("nil" when it has none, else what the method returns).          *)
(***************************************************************************)
NilRef == [tag |-> "nil", id |-> 0, msg |-> EmptyStr, cap |-> "nil"]
TerrorRef(i) == [tag |-> "terror", id |-> i, msg |-> EmptyStr, cap |-> "nil"]
ForeignRef(m, c) == [tag |-> "foreign", id |-> 0, msg |-> m, cap |-> c]

IsTerror(r) == r.tag = "terror"
IsForeign(r) == r.tag = "foreign"

\* the Error struct
MkError(code, message, params, frames, isRetryable, isUnexpected, count, chain, cause) ==
    [Code |-> code, Message |-> message, Params |-> params,
     StackFrames |-> frames, IsRetryable |-> isRetryable,
     IsUnexpected |-> isUnexpected, MarshalCount |-> count,
     MessageChain |-> chain, cause |-> cause]

\* the result of an operation that may allocate: the heap and the reference
Result(h, r) == [heap |-> h, ret |-> r]

\* &Error{...}
NewObject(h, e) == Result(Append(h, e), TerrorRef(Len(h) + 1))

(***************************************************************************)
(* Stack capture (an external collaborator).                               *)
(***************************************************************************)
Frame(filename, line, method, pc) ==
    [Filename |-> filename, Line |-> line, Method |-> method, PC |-> pc]

\* file and method names are spelled character by character, so that the
\* length of a rendered stack is the length of the sequence
CapturedStacks ==
    { <<Frame(<<"a", ".", "g", "o">>, 10, <<"f">>, 7)>> }

(***************************************************************************)
(* Factories.                                                              *)
(***************************************************************************)
\* errCode joins a generic code and a sub code
errCode(prefix, code) ==
    IF code = EmptyStr THEN prefix ELSE Join(<<prefix, code>>, Dot)

\* errorFactory: a fresh Error with a captured stack, the given params
\* (an empty mapping if none) and no cause
errorFactory(h, code, message, params, stk) ==
    NewObject(h, MkError(code, message,
                         IF params.isNil THEN MakeMap(Len(h) + 1, {}) ELSE params,
                         stk, NilBool, NilBool, 0, <<>>, NilRef))

New(h, code, message, params, stk) ==
    errorFactory(h, code, message, params, stk)

(***************************************************************************)
(* Rendering.                                                              *)
(***************************************************************************)
\* the loop of ErrorMessage: the messages of the links from `next` on
RECURSIVE CauseMessages(_, _)
CauseMessages(h, next) ==
    IF next.tag = "nil" THEN EmptyStr
    ELSE IF next.tag = "terror"
         THEN Colon \o h[next.id].Message \o CauseMessages(h, h[next.id].cause)
         ELSE Colon \o next.msg

\* ErrorMessage that renders the message of the Error alone
ErrorMessage_OwnOnly(h, p) == h[p.id].Message

\* (p *Error).ErrorMessage
ErrorMessage(h, p) == h[p.id].Message \o CauseMessages(h, h[p.id].cause)

\* (p *Error).legacyErrString
legacyErrString(h, p) ==
    IF p.tag = "nil" THEN EmptyStr
    ELSE IF h[p.id].Message = EmptyStr THEN h[p.id].Code
    ELSE IF h[p.id].Code = EmptyStr THEN h[p.id].Message
    ELSE h[p.id].Code \o Colon \o h[p.id].Message

\* (p *Error).Error
Error(h, p) ==
    IF h[p.id].cause.tag = "nil" THEN legacyErrString(h, p)
    ELSE h[p.id].Code \o Colon \o ErrorMessage(h, p)

\* err.Error() of any non-nil error value
ErrorOf(h, err) == IF err.tag = "terror" THEN Error(h, err) ELSE err.msg

(***************************************************************************)
(* Stack rendering.  The rendered stack is a sequence of characters.       *)
(***************************************************************************)
maxCausalDepth == 1024
DefaultSizeLimit == 32000

Digits == <<"0", "1", "2", "3", "4", "5", "6", "7", "8", "9">>

\* the verb %d of fmt
RECURSIVE Itoa(_)
Itoa(n) ==
    IF n < 0 THEN <<"-">> \o Itoa(0 - n)
    ELSE IF n < 10 THEN <<Digits[n + 1]>>
    ELSE Itoa(n \div 10) \o <<Digits[(n % 10) + 1]>>

\* "\n---"
Divider == <<"\n", "-", "-", "-">>

\* "\n  %s:%d in %s"
FrameLine(frame) ==
    <<"\n", " ", " ">> \o frame.Filename \o <<":">> \o Itoa(frame.Line)
        \o <<" ", "i", "n", " ">> \o frame.Method

\* the loop over the frames of one Error: a frame is written when its
\* estimated length fits; broke tells that the loop left the outer loop
RECURSIVE WriteFrames(_, _, _)
WriteFrames(frames, buffer, sizeLimit) ==
    IF frames = <<>> THEN [buffer |-> buffer, broke |-> FALSE]
    ELSE LET frame == Head(frames)
             estimatedLineLen == Len(frame.Filename) + Len(frame.Method) + 16
         IN  IF estimatedLineLen + Len(buffer) > sizeLimit
             THEN [buffer |-> buffer, broke |-> TRUE]
             ELSE WriteFrames(Tail(frames), buffer \o FrameLine(frame), sizeLimit)

\* the outer loop of StackStringWithMaxSize, at the Error terr
RECURSIVE StackLoop(_, _, _, _, _)
StackLoop(h, terr, causalDepth, buffer, sizeLimit) ==
    LET e == h[terr.id]
        divided == IF Len(buffer) # 0 /\ Len(e.StackFrames) > 0
                   THEN buffer \o Divider ELSE buffer
        w == WriteFrames(e.StackFrames, divided, sizeLimit)
    IN  IF w.broke THEN w.buffer
        ELSE IF e.cause.tag = "terror" /\ causalDepth < maxCausalDepth
             THEN StackLoop(h, e.cause, causalDepth + 1, w.buffer, sizeLimit)
             ELSE w.buffer

\* StackStringWithMaxSize(p, sizeLimit)
StackStringWithMaxSize(h, p, sizeLimit) ==
    IF p.tag = "nil" THEN EmptyStr ELSE StackLoop(h, p, 0, EmptyStr, sizeLimit)

\* (p *Error).StackString
StackString(h, p) == StackStringWithMaxSize(h, p, DefaultSizeLimit)

(***************************************************************************)
(* Wrapping.                                                               *)
(***************************************************************************)
\* addParams with the two copy loops in the other order: the old value wins
addParams_OldWins(h, err, params) ==
    LET e == h[err.id]
        copiedParams == MakeMap(Len(h) + 1, CopyInto(CopyInto({}, params.kv), e.Params.kv))
    IN  NewObject(h, MkError(e.Code, e.Message, copiedParams, e.StackFrames,
                             e.IsRetryable, e.IsUnexpected, e.MarshalCount,
                             e.MessageChain, e.cause))

\* addParams that merges the new params into the map of the original
addParams_InPlace(h, err, params) ==
    LET e == h[err.id]
        merged == IF e.Params.isNil
                  THEN MakeMap(Len(h) + 1, params.kv)
                  ELSE [e.Params EXCEPT !.kv = CopyInto(@, params.kv)]
        written == [h EXCEPT ![err.id].Params = IF e.Params.isNil THEN @ ELSE merged]
    IN  NewObject(written, MkError(e.Code, e.Message, merged, e.StackFrames,
                                   e.IsRetryable, e.IsUnexpected, e.MarshalCount,
                                   e.MessageChain, e.cause))

\* addParams that makes no new map when there is nothing to merge
addParams_SharesMap(h, err, params) ==
    LET e == h[err.id]
        copiedParams ==
            IF params.kv = {} /\ ~e.Params.isNil THEN e.Params
            ELSE MakeMap(Len(h) + 1, CopyInto(CopyInto({}, e.Params.kv), params.kv))
    IN  NewObject(h, MkError(e.Code, e.Message, copiedParams, e.StackFrames,
                             e.IsRetryable, e.IsUnexpected, e.MarshalCount,
                             e.MessageChain, e.cause))

\* addParams whose copy has the original as its cause
addParams_CausedByOriginal(h, err, params) ==
    LET e == h[err.id]
        copiedParams == MakeMap(Len(h) + 1, CopyInto(CopyInto({}, e.Params.kv), params.kv))
    IN  NewObject(h, MkError(e.Code, e.Message, copiedParams, e.StackFrames,
                             e.IsRetryable, e.IsUnexpected, e.MarshalCount,
                             e.MessageChain, err))

\* addParams returns a new error with new params merged into the original's
addParams(h, err, params) ==
    LET e == h[err.id]
        copiedParams == MakeMap(Len(h) + 1, CopyInto(CopyInto({}, e.Params.kv), params.kv))
    IN  NewObject(h, MkError(e.Code, e.Message, copiedParams, e.StackFrames,
                             e.IsRetryable, e.IsUnexpected, e.MarshalCount,
                             e.MessageChain, e.cause))

\* Wrap: nil in, nil out; an Error gets the params merged into a copy; a
\* foreign error becomes an internal_service Error with the error as cause
Wrap(h, err, params, stk) ==
    IF err.tag = "nil" THEN Result(h, NilRef)
    ELSE IF err.tag = "terror" THEN addParams(h, err, params)
    ELSE NewObject(h, MkError(ErrInternalService, err.msg, params, stk,
                              NilBool, NilBool, 0, <<>>, err))

\* NewInternalWithCause without the inheritance of the cause's retryability
NewInternalWithCause_NoInherit(h, err, message, params, subCode, stk) ==
    LET r == errorFactory(h, errCode(ErrInternalService, subCode), message, params, stk)
        newErr == r.heap[r.ret.id]
        withChain ==
            [newErr EXCEPT
                !.cause = err,
                !.MessageChain =
                    IF err.tag = "terror"
                    THEN <<h[err.id].Message>> \o h[err.id].MessageChain
                    ELSE <<ErrorOf(h, err)>>,
                !.MarshalCount =
                    IF err.tag = "terror" THEN h[err.id].MarshalCount ELSE @]
    IN  Result([r.heap EXCEPT ![r.ret.id] = withChain], r.ret)

\* NewInternalWithCause that records the cause's message but not its history
NewInternalWithCause_ShortChain(h, err, message, params, subCode, stk) ==
    LET r == errorFactory(h, errCode(ErrInternalService, subCode), message, params, stk)
        newErr == r.heap[r.ret.id]
        withChain ==
            [newErr EXCEPT
                !.cause = err,
                !.MessageChain =
                    IF err.tag = "terror"
                    THEN <<h[err.id].Message>>
                    ELSE <<ErrorOf(h, err)>>]
        withClass ==
            IF err.tag = "terror"
            THEN [withChain EXCEPT
                    !.MarshalCount = h[err.id].MarshalCount,
                    !.IsRetryable = IF h[err.id].IsRetryable # NilBool
                                    THEN h[err.id].IsRetryable ELSE @]
            ELSE IF err.cap # "nil"
            THEN [withChain EXCEPT !.IsRetryable = AddrOf(Deref(err.cap))]
            ELSE withChain
    IN  Result([r.heap EXCEPT ![r.ret.id] = withClass], r.ret)

\* NewInternalWithCause that fixes the flag to what the cause answers now
NewInternalWithCause_FreezesAnswer(h, err, message, params, subCode, stk) ==
    LET r == errorFactory(h, errCode(ErrInternalService, subCode), message, params, stk)
        newErr == r.heap[r.ret.id]
        chain == IF err.tag = "terror"
                 THEN <<h[err.id].Message>> \o h[err.id].MessageChain
                 ELSE <<ErrorOf(h, err)>>
        withClass ==
            IF err.tag = "terror"
            THEN [newErr EXCEPT
                    !.cause = err, !.MessageChain = chain,
                    !.MarshalCount = h[err.id].MarshalCount,
                    !.IsRetryable =
                        IF h[err.id].IsRetryable # NilBool
                        THEN h[err.id].IsRetryable
                        ELSE AddrOf(\E i \in 1..Len(retryableCodes) :
                                       HasPrefix(h[err.id].Code, retryableCodes[i]))]
            ELSE IF err.cap # "nil"
            THEN [newErr EXCEPT !.cause = err, !.MessageChain = chain,
                                !.IsRetryable = AddrOf(Deref(err.cap))]
            ELSE [newErr EXCEPT !.cause = err, !.MessageChain = chain]
    IN  Result([r.heap EXCEPT ![r.ret.id] = withClass], r.ret)

\* NewInternalWithCause that never asks a foreign cause whether it is retryable
NewInternalWithCause_IgnoresCapability(h, err, message, params, subCode, stk) ==
    LET r == errorFactory(h, errCode(ErrInternalService, subCode), message, params, stk)
        newErr == r.heap[r.ret.id]
        chain == IF err.tag = "terror"
                 THEN <<h[err.id].Message>> \o h[err.id].MessageChain
                 ELSE <<ErrorOf(h, err)>>
        withClass ==
            IF err.tag = "terror"
            THEN [newErr EXCEPT
                    !.cause = err, !.MessageChain = chain,
                    !.MarshalCount = h[err.id].MarshalCount,
                    !.IsRetryable = IF h[err.id].IsRetryable # NilBool
                                    THEN h[err.id].IsRetryable ELSE @]
            ELSE [newErr EXCEPT !.cause = err, !.MessageChain = chain]
    IN  Result([r.heap EXCEPT ![r.ret.id] = withClass], r.ret)

\* NewInternalWithCause creates a new Terror from an existing (non-nil) error
NewInternalWithCause(h, err, message, params, subCode, stk) ==
    LET r == errorFactory(h, errCode(ErrInternalService, subCode), message, params, stk)
        newErr == r.heap[r.ret.id]
        withCause == [newErr EXCEPT !.cause = err]
        withChain ==
            [withCause EXCEPT !.MessageChain =
                IF err.tag = "terror"
                THEN <<h[err.id].Message>> \o h[err.id].MessageChain
                ELSE <<ErrorOf(h, err)>>]
        withClass ==
            IF err.tag = "terror"
            THEN [withChain EXCEPT
                    !.MarshalCount = h[err.id].MarshalCount,
                    !.IsRetryable = IF h[err.id].IsRetryable # NilBool
                                    THEN h[err.id].IsRetryable ELSE @]
            ELSE IF err.cap # "nil"
            THEN [withChain EXCEPT !.IsRetryable = AddrOf(Deref(err.cap))]
            ELSE withChain
    IN  Result([r.heap EXCEPT ![r.ret.id] = withClass], r.ret)

\* Augment that records the message it wraps and drops the history before it
Augment_DropsHistory(h, err, context, params, stk) ==
    IF err.tag = "nil" THEN Result(h, NilRef)
    ELSE IF err.tag = "terror"
    THEN LET e == h[err.id]
             withMergedParams == addParams(h, err, params)
             merged == withMergedParams.heap[withMergedParams.ret.id].Params
         IN  NewObject(h, MkError(e.Code, context, merged, <<>>,
                                  e.IsRetryable, e.IsUnexpected, e.MarshalCount,
                                  <<e.Message>>, err))
    ELSE NewInternalWithCause(h, err, context, params, EmptyStr, stk)

\* Augment that keeps the stack of the error it wraps
Augment_KeepsStack(h, err, context, params, stk) ==
    IF err.tag = "nil" THEN Result(h, NilRef)
    ELSE IF err.tag = "terror"
    THEN LET e == h[err.id]
             withMergedParams == addParams(h, err, params)
             merged == withMergedParams.heap[withMergedParams.ret.id].Params
         IN  NewObject(h, MkError(e.Code, context, merged, e.StackFrames,
                                  e.IsRetryable, e.IsUnexpected, e.MarshalCount,
                                  <<e.Message>> \o e.MessageChain, err))
    ELSE NewInternalWithCause(h, err, context, params, EmptyStr, stk)

\* Augment adds context to an existing error
Augment(h, err, context, params, stk) ==
    IF err.tag = "nil" THEN Result(h, NilRef)
    ELSE IF err.tag = "terror"
    THEN LET e == h[err.id]
             withMergedParams == addParams(h, err, params)
             merged == withMergedParams.heap[withMergedParams.ret.id].Params
         IN  NewObject(h, MkError(e.Code, context, merged, <<>>,
                                  e.IsRetryable, e.IsUnexpected, e.MarshalCount,
                                  <<e.Message>> \o e.MessageChain, err))
    ELSE NewInternalWithCause(h, err, context, params, EmptyStr, stk)

\* Propagate that wraps an Error as it wraps a foreign error
Propagate_AlwaysWraps(h, err, stk) ==
    IF err.tag = "nil" THEN Result(h, NilRef)
    ELSE NewInternalWithCause(h, err, ErrorOf(h, err), NilMap, EmptyStr, stk)

\* Propagate that files a foreign error under a sub code of its own
Propagate_SubCoded(h, err, stk) ==
    IF err.tag = "nil" THEN Result(h, NilRef)
    ELSE IF err.tag = "terror" THEN Result(h, err)
    ELSE NewInternalWithCause(h, err, ErrorOf(h, err), NilMap, <<"propagated">>, stk)

\* Propagate an error without changing it
Propagate(h, err, stk) ==
    IF err.tag = "nil" THEN Result(h, NilRef)
    ELSE IF err.tag = "terror" THEN Result(h, err)
    ELSE NewInternalWithCause(h, err, ErrorOf(h, err), NilMap, EmptyStr, stk)

(***************************************************************************)
(* The code matcher.                                                       *)
(***************************************************************************)
\* (p *Error).PrefixMatches that finds the joined parts anywhere in the code
ErrorPrefixMatches_Anywhere(h, p, prefixParts) ==
    LET prefix == Join(prefixParts, Dot)
        code == h[p.id].Code
    IN  \E i \in 0..Len(code) :
            /\ i + Len(prefix) <= Len(code)
            /\ SubSeq(code, i + 1, i + Len(prefix)) = prefix

\* (p *Error).PrefixMatches
ErrorPrefixMatches(h, p, prefixParts) ==
    HasPrefix(h[p.id].Code, Join(prefixParts, Dot))

\* PrefixMatches(err, prefixParts...)
PrefixMatches(h, err, prefixParts, stk) ==
    LET w == Wrap(h, err, NilMap, stk)
    IN  IF w.ret.tag = "terror"
        THEN ErrorPrefixMatches(w.heap, w.ret, prefixParts)
        ELSE FALSE

\* Is that looks at the error itself only
Is_OwnCodeOnly(h, err, code) ==
    IF err.tag = "terror" THEN ErrorPrefixMatches(h, err, code) ELSE FALSE

\* Is that gives up on an Error without a cause before it tests the code
Is_NeedsCause(h, err, code) ==
    IF err.tag = "terror"
    THEN IF h[err.id].cause.tag = "nil" THEN FALSE
         ELSE ErrorPrefixMatches(h, err, code)
    ELSE FALSE

\* Is(err, code...)
RECURSIVE Is(_, _, _)
Is(h, err, code) ==
    IF err.tag = "terror"
    THEN IF ErrorPrefixMatches(h, err, code) THEN TRUE
         ELSE LET next == h[err.id].cause
              IN  IF next.tag = "nil" THEN FALSE ELSE Is(h, next, code)
    ELSE FALSE

(***************************************************************************)
(* Classification.                                                         *)
(***************************************************************************)
\* Retryable that decides by the code alone
Retryable_ByCodeOnly(h, p, stk) ==
    \E i \in 1..Len(retryableCodes) :
        PrefixMatches(h, p, <<retryableCodes[i]>>, stk)

\* (p *Error).Retryable
Retryable(h, p, stk) ==
    IF h[p.id].IsRetryable # NilBool THEN Deref(h[p.id].IsRetryable)
    ELSE \E i \in 1..Len(retryableCodes) :
            PrefixMatches(h, p, <<retryableCodes[i]>>, stk)

\* (p *Error).Unexpected
Unexpected(h, p) ==
    IF h[p.id].IsUnexpected # NilBool THEN Deref(h[p.id].IsUnexpected)
    ELSE FALSE

\* SetIsRetryable that writes through the pointer it finds in the Error, and
\* so into every Error that holds the same flag
SetIsRetryable_WritesThrough(h, p, value) ==
    [i \in DOMAIN h |->
        IF i = p.id \/ ( /\ h[p.id].IsRetryable # NilBool
                         /\ h[i].IsRetryable = h[p.id].IsRetryable )
        THEN [h[i] EXCEPT !.IsRetryable = AddrOf(value)]
        ELSE h[i]]

\* (p *Error).SetIsRetryable
SetIsRetryable(h, p, value) ==
    [h EXCEPT ![p.id].IsRetryable = IF value THEN AddrOf(TRUE) ELSE AddrOf(FALSE)]

\* (p *Error).SetIsUnexpected
SetIsUnexpected(h, p, value) ==
    [h EXCEPT ![p.id].IsUnexpected = IF value THEN AddrOf(TRUE) ELSE AddrOf(FALSE)]

\* IsRetryable that answers for Errors only
IsRetryable_ErrorsOnly(h, err, stk) ==
    IF err.tag = "terror" THEN Retryable(h, err, stk) ELSE FALSE

\* IsRetryable(err)
IsRetryable(h, err, stk) ==
    LET r == Propagate(h, err, stk)
    IN  IF r.ret.tag = "terror" THEN Retryable(r.heap, r.ret, stk) ELSE FALSE

(***************************************************************************)
(* The wire record pe.Error (nil, or a record).                            *)
(***************************************************************************)
PeStackFrame(filename, line, method) ==
    [Filename |-> filename, Line |-> line, Method |-> method]

PeError(code, message, params, stk, retr, unexp, count, chain) ==
    [isNil |-> FALSE, Code |-> code, Message |-> message, Params |-> params,
     Stack |-> stk, Retryable |-> retr, Unexpected |-> unexp,
     MarshalCount |-> count, MessageChain |-> chain]

NilPeError ==
    [isNil |-> TRUE, Code |-> EmptyStr, Message |-> EmptyStr, Params |-> NilMap,
     Stack |-> <<>>, Retryable |-> NilBool, Unexpected |-> NilBool,
     MarshalCount |-> 0, MessageChain |-> <<>>]

\* line numbers are within the int32 range, where int32(n) is n
stackToProto(s) ==
    [i \in 1..Len(s) |-> PeStackFrame(s[i].Filename, s[i].Line, s[i].Method)]

protoToStack(protoStack) ==
    [i \in 1..Len(protoStack) |->
        Frame(protoStack[i].Filename, protoStack[i].Line, protoStack[i].Method, 0)]

\* Marshal without the default of the code
Marshal_RawCode(h, e) ==
    IF e.tag = "nil"
    THEN PeError(ErrUnknown, <<"Unknown error, nil error marshalled">>,
                 NilMap, <<>>, NilBool, NilBool, 0, <<>>)
    ELSE LET p == h[e.id]
             retr == IF p.IsRetryable # NilBool
                     THEN AddrOf(Deref(p.IsRetryable)) ELSE AddrOf(FALSE)
             unexp == IF p.IsUnexpected # NilBool
                      THEN AddrOf(Deref(p.IsUnexpected)) ELSE AddrOf(FALSE)
         IN  PeError(p.Code, p.Message, p.Params, stackToProto(p.StackFrames),
                     retr, unexp, Int32Succ(p.MarshalCount), p.MessageChain)

\* Marshal an error into a protobuf for transmission
Marshal(h, e) ==
    IF e.tag = "nil"
    THEN PeError(ErrUnknown, <<"Unknown error, nil error marshalled">>,
                 NilMap, <<>>, NilBool, NilBool, 0, <<>>)
    ELSE LET p == h[e.id]
             \* retryable := &pe.BoolValue{}; the Value is copied when set
             retr == IF p.IsRetryable # NilBool
                     THEN AddrOf(Deref(p.IsRetryable)) ELSE AddrOf(FALSE)
             unexp == IF p.IsUnexpected # NilBool
                      THEN AddrOf(Deref(p.IsUnexpected)) ELSE AddrOf(FALSE)
             err == PeError(p.Code, p.Message, p.Params,
                            stackToProto(p.StackFrames), retr, unexp,
                            Int32Succ(p.MarshalCount), p.MessageChain)
         IN  IF err.Code = EmptyStr THEN [err EXCEPT !.Code = ErrUnknown] ELSE err

\* Unmarshal that leaves the message chain of the record behind
Unmarshal_DropsChain(h, p) ==
    IF p.isNil
    THEN NewObject(h, MkError(ErrUnknown, <<"Nil error unmarshalled!">>,
                              MakeMap(Len(h) + 1, {}), <<>>, NilBool, NilBool, 0,
                              <<>>, NilRef))
    ELSE LET err == MkError(p.Code, p.Message, p.Params, protoToStack(p.Stack),
                            p.Retryable, p.Unexpected, p.MarshalCount, <<>>, NilRef)
             err1 == IF err.Code = EmptyStr THEN [err EXCEPT !.Code = ErrUnknown] ELSE err
             err2 == IF err1.Params.isNil
                     THEN [err1 EXCEPT !.Params = MakeMap(Len(h) + 1, {})] ELSE err1
         IN  NewObject(h, err2)

\* Unmarshal where a nil record gives an Error without a params mapping
Unmarshal_NilWithoutParams(h, p) ==
    IF p.isNil
    THEN NewObject(h, MkError(ErrUnknown, <<"Nil error unmarshalled!">>,
                              NilMap, <<>>, NilBool, NilBool, 0, <<>>, NilRef))
    ELSE LET err == MkError(p.Code, p.Message, p.Params, protoToStack(p.Stack),
                            p.Retryable, p.Unexpected, p.MarshalCount,
                            p.MessageChain, NilRef)
             err1 == IF err.Code = EmptyStr THEN [err EXCEPT !.Code = ErrUnknown] ELSE err
             err2 == IF err1.Params.isNil
                     THEN [err1 EXCEPT !.Params = MakeMap(Len(h) + 1, {})] ELSE err1
         IN  NewObject(h, err2)

\* Unmarshal a protobuf error into a local error
Unmarshal(h, p) ==
    IF p.isNil
    THEN NewObject(h, MkError(ErrUnknown, <<"Nil error unmarshalled!">>,
                              MakeMap(Len(h) + 1, {}), <<>>, NilBool, NilBool, 0,
                              <<>>, NilRef))
    ELSE LET retr == IF p.Retryable # NilBool THEN p.Retryable ELSE NilBool
             unexp == IF p.Unexpected # NilBool THEN p.Unexpected ELSE NilBool
             err == MkError(p.Code, p.Message, p.Params, protoToStack(p.Stack),
                            retr, unexp, p.MarshalCount, p.MessageChain, NilRef)
             err1 == IF err.Code = EmptyStr THEN [err EXCEPT !.Code = ErrUnknown] ELSE err
             err2 == IF err1.Params.isNil
                     THEN [err1 EXCEPT !.Params = MakeMap(Len(h) + 1, {})] ELSE err1
         IN  NewObject(h, err2)

(***************************************************************************)
(* The inputs the operations are called with.                              *)
(***************************************************************************)
\* the arguments New is called with: code, message, params
NewInputs ==
    { <<ErrNotFound \o Dot \o <<"foo">>, <<"failed to find foo">>, NilMap>>,
      <<ErrRateLimited, EmptyStr, CallerMap(2, {<<"key", "old">>})>>,
      <<<<"service", ".", "foo">>, <<"bad">>, CallerMap(3, {})>> }
ContextInputs == {<<"added context">>}
\* the arguments NewInternalWithCause is called with: message, params, subCode
InternalInputs ==
    { <<<<"inner terror">>, NilMap, EmptyStr>>,
      <<<<"outer">>, CallerMap(1, {<<"key", "new">>, <<"other", "new">>}), <<"sub">>>> }
ParamInputs == {NilMap, CallerMap(1, {<<"key", "new">>, <<"other", "new">>})}
ForeignInputs ==
    {ForeignRef(<<"wrapped error">>, "nil"), ForeignRef(EmptyStr, "false")}

\* Error values written as struct literals, as callers and the tests do
LiteralInputs ==
    { MkError(EmptyStr, EmptyStr, NilMap, <<>>, NilBool, NilBool, 0, <<>>, NilRef),
      MkError(ErrInternalService, <<"foo">>, CallerMap(4, {<<"key", "old">>}), <<>>,
              AddrOf(FALSE), AddrOf(TRUE), 1000, <<>>, NilRef),
      MkError(ErrNotFound, <<"5">>, NilMap, <<>>, AddrOf(TRUE), AddrOf(FALSE),
              MaxInt32, <<<<"4">>, <<"3">>>>, NilRef) }

\* records received from a peer
WireInputs ==
    { NilPeError,
      PeError(EmptyStr, EmptyStr, NilMap, <<>>, NilBool, NilBool, 0, <<>>),
      PeError(ErrTimeout, <<"foo">>, NilMap,
              <<PeStackFrame(<<"b", ".", "g", "o">>, 123, <<"g">>)>>,
              AddrOf(TRUE), AddrOf(FALSE), 9876, <<<<"4">>, <<"3">>>>) }

\* the Errors the tests of the matchers are written about
MatchInputs ==
    { MkError(ErrBadRequest \o Dot \o <<"missing_param">> \o Dot \o <<"f", "o", "o">>,
              <<"You need to pass a value for foo">>, NilMap, <<>>,
              NilBool, NilBool, 0, <<>>, NilRef),
      MkError(ErrInternalService \o Dot \o <<"f", "o", "o", "1">>,
              <<"missing_param">>, NilMap, <<>>, NilBool, NilBool, 0, <<>>, NilRef) }

\* the code parts PrefixMatches is asked about
MatchParts ==
    { <<>>,
      <<ErrBadRequest>>,
      <<ErrBadRequest \o Dot \o <<"missing_param">>>>,
      <<ErrBadRequest, <<"missing_param">>>>,
      <<ErrBadRequest, <<"missing_param">>, <<"f", "o">>>>,
      <<ErrBadRequest, <<"missing_param">>, <<"f", "o", "o", "1">>>>,
      <<ErrBadRequest \o Dot \o <<"missing_param">> \o Dot \o <<"f", "o", "o", "1">>>>,
      <<ErrInternalService>>,
      <<<<"You need to pass a value for foo">>>>,
      <<<<"missing_param">>>> }

\* the code parts Is is asked about
PartsInputs ==
    { <<ErrNotFound>>, <<ErrNotFound, <<"foo">>>>, <<ErrInternalService>>, <<>> }

\* foreign errors with a Retryable() method, as IsRetryable is asked about them
RetryableInputs == {ForeignRef(EmptyStr, "false"), ForeignRef(EmptyStr, "true")}

\* stacks a caller assigns to StackFrames, or receives from a peer
FrameInputs ==
    { <<Frame(<<"a", ".", "g", "o">>, 12345, <<"f">>, 7)>>,
      <<Frame(<<"b", ".", "g", "o">>, 50, <<"g">>, 69),
        Frame(<<"b", ".", "g", "o">>, 43, <<"h">>, 420)>> }

\* the size limits callers ask for
MaxSize == 30
SizeLimits == 0..MaxSize

\* the entries a caller writes into the params of an Error it was returned
SetInputs == { <<"key", "set">>, <<"added", "set">> }

NoInput ==
    [code |-> EmptyStr, message |-> EmptyStr, params |-> NilMap, parts |-> <<>>,
     size |-> 0, value |-> FALSE]
Input(code, message, params, parts) ==
    [NoInput EXCEPT !.code = code, !.message = message, !.params = params,
                    !.parts = parts]

(***************************************************************************)
(* Threads that share the Errors of the heap.  A call of a thread reads    *)
(* the Error in two steps, with the steps of other threads in between: the *)
(* first step reads Code, Message and Params, the second the other fields, *)
(* computes, and allocates what the call returns.                          *)
(***************************************************************************)
Threads == {"t1", "t2"}

ThreadOps ==
    {"Error", "Retryable", "Is", "Marshal", "Wrap", "Augment", "NewInternalWithCause"}

\* the arguments the threads pass besides the shared Error
ThreadParams == CHOOSE p \in ParamInputs : ~p.isNil
ThreadContext == CHOOSE c \in ContextInputs : TRUE
ThreadStack == CHOOSE stk \in CapturedStacks : TRUE

\* the Error as a call sees it that read `first` in its first step and reads
\* `now` in its second
Mixed(first, now) ==
    [now EXCEPT !.Code = first.Code, !.Message = first.Message,
                !.Params = first.Params]

\* the call `name` on e in heap h: the heap it leaves and the error it returns
ThreadCall(h, name, e) ==
    IF name = "Wrap" THEN Wrap(h, e, ThreadParams, ThreadStack)
    ELSE IF name = "Augment"
         THEN Augment(h, e, ThreadContext, ThreadParams, ThreadStack)
    ELSE IF name = "NewInternalWithCause"
         THEN NewInternalWithCause(h, e, ThreadContext, ThreadParams, EmptyStr,
                                   ThreadStack)
    ELSE Result(h, NilRef)

\* what the call returns: a boolean, a string, a record, or an Error, which
\* is taken without the identity of its params
ThreadResult(h, name, e) ==
    LET r == ThreadCall(h, name, e)
    IN  [ out |-> IF name = "Retryable" THEN Retryable(h, e, ThreadStack)
                  ELSE IF name = "Is" THEN Is(h, e, <<ErrInternalService>>)
                  ELSE FALSE,
          text |-> IF name = "Error" THEN Error(h, e) ELSE EmptyStr,
          wire |-> IF name = "Marshal" THEN Marshal(h, e) ELSE NilPeError,
          err |-> IF r.ret.tag = "terror"
                  THEN <<[r.heap[r.ret.id] EXCEPT !.Params.id = 0]>>
                  ELSE <<>> ]

\* a thread: where it is in its call, the call, what its first step read,
\* what the call returns when nothing runs beside it, what it returned
\* (each empty until there is one)
IdleThread ==
    [pc |-> "idle", name |-> "", e |-> NilRef, first |-> <<>>,
     alone |-> <<>>, res |-> <<>>]

\* the error values a caller can pass: nil, a foreign error, a live *Error
Terrors(h) == {TerrorRef(i) : i \in 1..Len(h)}
Refs(h) == {NilRef} \cup ForeignInputs \cup Terrors(h)

\* an operation may allocate only while the heap has room
Fits(r) == Len(r.heap) <= MaxErrs

(***************************************************************************)
(* The state machine.  Each action is one call of a public operation by a  *)
(* caller; it records the call (op, arg, in), what it returned (ret for an *)
(* error, out for a boolean, wire for a record) and the heap it left.      *)
(* sent is the Error the record in wire was marshalled from.  A record is   *)
(* decoded, if at all, by the call that follows its encoding.              *)
(***************************************************************************)
Init ==
    /\ heap = <<>>
    /\ op = "init"
    /\ arg = NilRef
    /\ in = NoInput
    /\ ret = NilRef
    /\ out = FALSE
    /\ text = EmptyStr
    /\ wire = NilPeError
    /\ sent = NilRef
    /\ link = NilRef
    /\ depth = 0
    /\ threads = [t \in Threads |-> IdleThread]

\* no traversal of a cause chain is under way; the caller's calls leave the
\* other threads where they are
NoWalk ==
    /\ link' = NilRef
    /\ depth' = 0
    /\ UNCHANGED threads

\* what a call leaves alone when it neither renders nor encodes
Quiet ==
    /\ text' = EmptyStr
    /\ NoWalk

Returns(name, a, i, r) ==
    /\ Fits(r)
    /\ heap' = r.heap
    /\ op' = name
    /\ arg' = a
    /\ in' = i
    /\ ret' = r.ret
    /\ out' = FALSE
    /\ wire' = NilPeError
    /\ sent' = NilRef
    /\ Quiet

Answers(name, a, i, b) ==
    /\ heap' = heap
    /\ op' = name
    /\ arg' = a
    /\ in' = i
    /\ ret' = NilRef
    /\ out' = b
    /\ wire' = NilPeError
    /\ sent' = NilRef
    /\ Quiet

\* a call that returns a string
Renders(name, a, i, s) ==
    /\ heap' = heap
    /\ op' = name
    /\ arg' = a
    /\ in' = i
    /\ ret' = NilRef
    /\ out' = FALSE
    /\ text' = s
    /\ wire' = NilPeError
    /\ sent' = NilRef
    /\ NoWalk

CallNew ==
    \E i \in NewInputs, stk \in CapturedStacks :
        Returns("New", NilRef, Input(i[1], i[2], i[3], <<>>),
                New(heap, i[1], i[2], i[3], stk))

CallLiteral ==
    \E e \in LiteralInputs :
        Returns("Literal", NilRef, NoInput, NewObject(heap, e))

CallWrap ==
    \E err \in Refs(heap), params \in ParamInputs, stk \in CapturedStacks :
        Returns("Wrap", err, Input(EmptyStr, EmptyStr, params, <<>>),
                Wrap(heap, err, params, stk))

CallAugment ==
    \E err \in Refs(heap), context \in ContextInputs, params \in ParamInputs,
       stk \in CapturedStacks :
        Returns("Augment", err, Input(EmptyStr, context, params, <<>>),
                Augment(heap, err, context, params, stk))

CallPropagate ==
    \E err \in Refs(heap), stk \in CapturedStacks :
        Returns("Propagate", err, NoInput, Propagate(heap, err, stk))

\* a nil cause makes NewInternalWithCause dereference nil: callers pass an error
CallNewInternalWithCause ==
    \E err \in Refs(heap) \ {NilRef}, i \in InternalInputs, stk \in CapturedStacks :
        Returns("NewInternalWithCause", err, Input(i[3], i[1], i[2], <<>>),
                NewInternalWithCause(heap, err, i[1], i[2], i[3], stk))

CallMarshal ==
    \E e \in {NilRef} \cup Terrors(heap) :
        /\ wire' = Marshal(heap, e)
        /\ sent' = e
        /\ op' = "Marshal"
        /\ arg' = e
        /\ in' = NoInput
        /\ ret' = NilRef
        /\ out' = FALSE
        /\ heap' = heap
        /\ Quiet

\* the record decoded is the one just marshalled, or one received from a peer
CallUnmarshal ==
    \E p \in {wire} \cup WireInputs :
        LET r == Unmarshal(heap, p)
        IN  /\ Fits(r)
            /\ heap' = r.heap
            /\ op' = "Unmarshal"
            /\ arg' = NilRef
            /\ in' = NoInput
            /\ ret' = r.ret
            /\ out' = FALSE
            /\ wire' = p
            /\ sent' = IF p = wire THEN sent ELSE NilRef
            /\ Quiet

\* the peer decodes the record just marshalled; the Error it gets is kept
\* beside the sender's Errors, in a slot of its own
CallReceive ==
    /\ op = "Marshal"
    /\ LET r == Unmarshal(heap, wire)
       IN  /\ Len(r.heap) <= MaxErrs + 1
           /\ heap' = r.heap
           /\ op' = "Unmarshal"
           /\ arg' = NilRef
           /\ in' = NoInput
           /\ ret' = r.ret
           /\ out' = FALSE
           /\ UNCHANGED <<wire, sent>>
           /\ Quiet

CallIs ==
    \E err \in Refs(heap), code \in PartsInputs :
        Answers("Is", err, Input(EmptyStr, EmptyStr, NilMap, code),
                Is(heap, err, code))

CallRetryable ==
    \E p \in Terrors(heap), stk \in CapturedStacks :
        Answers("Retryable", p, NoInput, Retryable(heap, p, stk))

CallUnexpected ==
    \E p \in Terrors(heap) :
        Answers("Unexpected", p, NoInput, Unexpected(heap, p))

CallError ==
    \E p \in Terrors(heap) :
        Renders("Error", p, NoInput, Error(heap, p))

\* IsRetryable is also asked about foreign errors that were never wrapped
CallIsRetryable ==
    \E err \in Refs(heap) \cup RetryableInputs, stk \in CapturedStacks :
        Answers("IsRetryable", err, NoInput, IsRetryable(heap, err, stk))

CallMatchLiteral ==
    \E e \in MatchInputs :
        Returns("Literal", NilRef, NoInput, NewObject(heap, e))

\* the Error that Wrap(err, nil) allocates for the test is dropped on return
CallPrefixMatches ==
    \E err \in Refs(heap), parts \in MatchParts, stk \in CapturedStacks :
        Answers("PrefixMatches", err, Input(EmptyStr, EmptyStr, NilMap, parts),
                PrefixMatches(heap, err, parts, stk))

CallErrorPrefixMatches ==
    \E e \in Terrors(heap), parts \in MatchParts :
        Answers("Error.PrefixMatches", e, Input(EmptyStr, EmptyStr, NilMap, parts),
                ErrorPrefixMatches(heap, e, parts))

\* Wrap of an Error
CallWrapOfError ==
    \E err \in Terrors(heap), params \in ParamInputs, stk \in CapturedStacks :
        Returns("Wrap", err, Input(EmptyStr, EmptyStr, params, <<>>),
                Wrap(heap, err, params, stk))

CallErrorMessage ==
    \E p \in Terrors(heap) :
        Renders("ErrorMessage", p, NoInput, ErrorMessage(heap, p))

\* a caller assigns a stack to a new Error that it chains to another error
CallFramed ==
    \E stk \in FrameInputs, cause \in Refs(heap) :
        Returns("Framed", cause, NoInput,
                NewObject(heap, MkError(ErrInternalService, <<"framed">>, NilMap, stk,
                                        NilBool, NilBool, 0, <<>>, cause)))

CallStackStringWithMaxSize ==
    \E p \in Terrors(heap), sizeLimit \in SizeLimits :
        Renders("StackStringWithMaxSize", p, [NoInput EXCEPT !.size = sizeLimit],
                StackStringWithMaxSize(heap, p, sizeLimit))

CallStackString ==
    \E p \in Terrors(heap) :
        Renders("StackString", p, [NoInput EXCEPT !.size = DefaultSizeLimit],
                StackString(heap, p))

\* m[k] = v, seen through a map value n: it changes if it refers to m
Put(n, m, entry) ==
    IF ~n.isNil /\ n.id = m.id THEN [n EXCEPT !.kv = CopyInto(@, {entry})] ELSE n

\* the caller writes an entry into the params of the Error it was returned:
\* the write shows in every Error, and in the caller's own map, that refers
\* to the same map
CallSetParam ==
    /\ IsTerror(ret)
    /\ ~heap[ret.id].Params.isNil
    /\ \E entry \in SetInputs :
          LET m == heap[ret.id].Params
          IN  /\ entry \notin m.kv
              /\ heap' = [i \in DOMAIN heap |->
                            [heap[i] EXCEPT !.Params = Put(@, m, entry)]]
              /\ in' = [in EXCEPT !.params = Put(@, m, entry)]
              /\ op' = "SetParam"
              /\ out' = FALSE
              /\ wire' = NilPeError
              /\ sent' = NilRef
              /\ Quiet
              /\ UNCHANGED <<arg, ret>>

CallSetIsRetryable ==
    \E p \in Terrors(heap), value \in BOOLEAN :
        Returns("SetIsRetryable", p, [NoInput EXCEPT !.value = value],
                Result(SetIsRetryable(heap, p, value), NilRef))

CallSetIsUnexpected ==
    \E p \in Terrors(heap), value \in BOOLEAN :
        Returns("SetIsUnexpected", p, [NoInput EXCEPT !.value = value],
                Result(SetIsUnexpected(heap, p, value), NilRef))

(***************************************************************************)
(* The traversals of a cause chain, one link a step.  link is the link the *)
(* traversal is about to visit (nil when it has returned) and depth the    *)
(* number of links it has visited.  Code inside the package can assign     *)
(* cause, so a chain can lead back to itself.  A traversal that has no     *)
(* bound of its own is followed for WalkCap links.  The steps of           *)
(* ErrorMessage record the links visited; what it writes is ErrorMessage   *)
(* above.                                                                  *)
(***************************************************************************)
WalkCap == maxCausalDepth + 2

\* p.cause = c
CallSetCause ==
    \E p \in Terrors(heap), c \in Terrors(heap) :
        /\ heap[p.id].cause # c
        /\ Returns("SetCause", c, NoInput,
                   Result([heap EXCEPT ![p.id].cause = c], p))

\* a traversal called as name(a, i) stands before the link n, having visited
\* d links, written s and, once it has returned, answered b
Walking(name, a, i, n, d, s, b) ==
    /\ heap' = heap
    /\ op' = name
    /\ arg' = a
    /\ in' = i
    /\ ret' = NilRef
    /\ out' = b
    /\ text' = s
    /\ wire' = NilPeError
    /\ sent' = NilRef
    /\ link' = n
    /\ depth' = d
    /\ UNCHANGED threads

\* ErrorMessage: output.WriteString(p.Message); next = p.cause
BeginErrorMessage ==
    \E p \in Terrors(heap) :
        Walking("ErrorMessage", p, NoInput, heap[p.id].cause, 1, EmptyStr, FALSE)

\* ErrorMessage: one turn of the loop `for next != nil`
StepErrorMessage ==
    /\ op = "ErrorMessage"
    /\ link # NilRef
    /\ depth < WalkCap
    /\ Walking(op, arg, in,
               IF link.tag = "terror" THEN heap[link.id].cause ELSE NilRef,
               depth + 1, text, FALSE)

\* Is(err, code) is called
BeginIs ==
    \E err \in Terrors(heap), code \in {<<ErrNotFound>>} :
        Walking("Is", err, Input(EmptyStr, EmptyStr, NilMap, code), err, 0,
                EmptyStr, FALSE)

\* Is: the body of one call, which returns or calls Is on the cause
StepIs ==
    /\ op = "Is"
    /\ link # NilRef
    /\ depth < WalkCap
    /\ IF link.tag = "terror"
       THEN IF ErrorPrefixMatches(heap, link, in.parts)
            THEN Walking(op, arg, in, NilRef, depth + 1, text, TRUE)
            ELSE Walking(op, arg, in, heap[link.id].cause, depth + 1, text, FALSE)
       ELSE Walking(op, arg, in, NilRef, depth + 1, text, FALSE)

\* StackString is called: terr := p
BeginStackString ==
    \E p \in Terrors(heap) :
        Walking("StackString", p, [NoInput EXCEPT !.size = DefaultSizeLimit],
                p, 0, EmptyStr, FALSE)

\* StackStringWithMaxSize: one turn of the loop `for terr != nil`, in which
\* causalDepth is the number of turns before it
StepStackString ==
    /\ op = "StackString"
    /\ link # NilRef
    /\ LET e == heap[link.id]
           divided == IF Len(text) # 0 /\ Len(e.StackFrames) > 0
                      THEN text \o Divider ELSE text
           w == WriteFrames(e.StackFrames, divided, in.size)
       IN  Walking(op, arg, in,
                   IF ~w.broke /\ e.cause.tag = "terror" /\ depth < maxCausalDepth
                   THEN e.cause ELSE NilRef,
                   depth + 1, w.buffer, FALSE)

\* the first step of a call of thread t
ThreadBegins ==
    \E t \in Threads, name \in ThreadOps, e \in Terrors(heap) :
        /\ threads[t].pc = "idle"
        /\ threads' = [threads EXCEPT ![t] =
                          [pc |-> "reading", name |-> name, e |-> e,
                           first |-> <<heap[e.id]>>,
                           alone |-> <<ThreadResult(heap, name, e)>>,
                           res |-> <<>>]]
        /\ UNCHANGED <<heap, op, arg, in, ret, out, text, wire, sent, link, depth>>

\* the second step: the call computes on what it read and returns; what it
\* wrote to the Errors that were there, and what it allocated, is in the heap
ThreadReturns ==
    \E t \in Threads :
        /\ threads[t].pc = "reading"
        /\ LET th == threads[t]
               view == [heap EXCEPT ![th.e.id] = Mixed(th.first[1], @)]
               r == ThreadCall(view, th.name, th.e)
           IN  /\ Fits(r)
               /\ heap' = [i \in 1..Len(r.heap) |->
                             IF i <= Len(heap) /\ r.heap[i] = view[i]
                             THEN heap[i] ELSE r.heap[i]]
               /\ threads' = [threads EXCEPT ![t] =
                                 [th EXCEPT !.pc = "done",
                                            !.res = <<ThreadResult(view, th.name, th.e)>>]]
        /\ UNCHANGED <<op, arg, in, ret, out, text, wire, sent, link, depth>>

Next ==
    \/ CallNew
    \/ CallLiteral
    \/ CallWrap
    \/ CallAugment
    \/ CallPropagate
    \/ CallNewInternalWithCause
    \/ CallMarshal
    \/ CallUnmarshal

Spec == Init /\ [][Next]_vars

\* callers who build causal chains in one process and ask the questions Is,
\* Retryable and Unexpected about them
NextQuery ==
    \/ CallNew
    \/ CallLiteral
    \/ CallAugment
    \/ CallPropagate
    \/ CallNewInternalWithCause
    \/ CallUnmarshal
    \/ CallIs
    \/ CallRetryable
    \/ CallUnexpected

SpecQuery == Init /\ [][NextQuery]_vars

\* callers who build causal chains and render them, or ask whether to retry
NextRender ==
    \/ CallNew
    \/ CallLiteral
    \/ CallAugment
    \/ CallNewInternalWithCause
    \/ CallError
    \/ CallIsRetryable

SpecRender == Init /\ [][NextRender]_vars

\* callers who build chains of Errors with stacks and render the stacks
NextStack ==
    \/ CallNew
    \/ CallFramed
    \/ CallAugment
    \/ CallStackStringWithMaxSize
    \/ CallStackString

SpecStack == Init /\ [][NextStack]_vars

\* callers who wrap Errors and write into the params of what they get
NextParams ==
    \/ CallNew
    \/ CallWrap
    \/ CallAugment
    \/ CallSetParam

SpecParams == Init /\ [][NextParams]_vars

\* a caller who makes Errors, and threads that share them
NextThreads ==
    \/ CallNew
    \/ CallLiteral
    \/ ThreadBegins
    \/ ThreadReturns

SpecThreads == Init /\ [][NextThreads]_vars

\* callers who derive Errors from one another and set their flags
NextSetters ==
    \/ CallNew
    \/ CallWrap
    \/ CallAugment
    \/ CallSetIsRetryable
    \/ CallSetIsUnexpected

SpecSetters == Init /\ [][NextSetters]_vars

\* code of the package that links Errors and traverses the chains
NextWalk ==
    \/ CallNew
    \/ CallSetCause
    \/ BeginErrorMessage
    \/ StepErrorMessage
    \/ BeginIs
    \/ StepIs
    \/ BeginStackString
    \/ StepStackString

SpecWalk == Init /\ [][NextWalk]_vars

\* the matchers, on Errors written as literals and on what Augment returns
NextMatch ==
    \/ CallMatchLiteral
    \/ CallAugment
    \/ CallPrefixMatches
    \/ CallErrorPrefixMatches

SpecMatch == Init /\ [][NextMatch]_vars

\* a hop: Errors with causes are marshalled and decoded by the peer
NextHop ==
    \/ CallNew
    \/ CallNewInternalWithCause
    \/ CallMarshal
    \/ CallReceive

SpecHop == Init /\ [][NextHop]_vars

\* Is beside PrefixMatches, on chains of one code and of several
NextIs ==
    \/ CallLiteral
    \/ CallAugment
    \/ CallNewInternalWithCause
    \/ CallIs

SpecIs == Init /\ [][NextIs]_vars

\* Errors built by the constructors and the wrapping operations, and decoded
\* from records, are rendered
NextChain ==
    \/ CallNew
    \/ CallUnmarshal
    \/ CallWrapOfError
    \/ CallAugment
    \/ CallPropagate
    \/ CallNewInternalWithCause
    \/ CallErrorMessage

SpecChain == Init /\ [][NextChain]_vars

\* the public operations that build Errors, and the traversals of what they
\* build, step by step
NextPublic ==
    \/ CallNew
    \/ CallUnmarshal
    \/ CallWrapOfError
    \/ CallAugment
    \/ CallPropagate
    \/ CallNewInternalWithCause
    \/ BeginErrorMessage
    \/ StepErrorMessage
    \/ BeginIs
    \/ StepIs

SpecPublic == Init /\ [][NextPublic]_vars

(***************************************************************************)
(* Properties.                                                             *)
(***************************************************************************)
ArgErr == heap[arg.id]
RetErr == heap[ret.id]
SentErr == heap[sent.id]

\* m = n + 1, for a 32-bit m
IsSuccessor(m, n) == n < MaxInt32 /\ m = n + 1

\* m holds exactly the keys of e and of p, with p's value on a collision
IsMerge(m, e, p) ==
    /\ ~m.isNil
    /\ Keys(m) = Keys(e) \cup Keys(p)
    /\ \A a, b \in m.kv : a[1] = b[1] => a = b
    /\ \A a \in m.kv : IF a[1] \in Keys(p) THEN a \in p.kv ELSE a \in e.kv

\* the walks from err through cause links that are Errors
Walks(h, err) ==
    { w \in UNION { [1..n -> 1..Len(h)] : n \in 1..Len(h) } :
        /\ w[1] = err.id
        /\ \A i \in 1..(Len(w) - 1) : h[w[i]].cause = TerrorRef(w[i + 1]) }

\* C1: the record Marshal(e) has its retryable field present if and only if
\* e's retryable flag is set, and then carries that boolean; likewise for the
\* unexpected field.  An unset flag gives an absent field.
C1_FlagPresentIffSet ==
    (op = "Marshal" /\ IsTerror(arg)) =>
        /\ (wire.Retryable # NilBool) <=> (ArgErr.IsRetryable # NilBool)
        /\ ArgErr.IsRetryable # NilBool =>
              Deref(wire.Retryable) = Deref(ArgErr.IsRetryable)
        /\ (wire.Unexpected # NilBool) <=> (ArgErr.IsUnexpected # NilBool)
        /\ ArgErr.IsUnexpected # NilBool =>
              Deref(wire.Unexpected) = Deref(ArgErr.IsUnexpected)

\* C2: for an Error x with a non-empty code, Unmarshal(Marshal(x)) has the
\* same tri-state retryable and unexpected flags as x, so Retryable() and
\* Unexpected() answer the same before and after the round trip.
C2_RoundTripKeepsClassification ==
    (op = "Unmarshal" /\ IsTerror(sent) /\ SentErr.Code # EmptyStr) =>
        /\ RetErr.IsRetryable = SentErr.IsRetryable
        /\ RetErr.IsUnexpected = SentErr.IsUnexpected
        /\ \A stk \in CapturedStacks :
              Retryable(heap, ret, stk) = Retryable(heap, sent, stk)
        /\ Unexpected(heap, ret) = Unexpected(heap, sent)

\* C3: for an Error x whose retryable flag is set, Unmarshal(Marshal(x)) has
\* the retryable flag set to the same value and a marshalCount of
\* x.marshalCount + 1.
C3_ExplicitFlagRoundTrip ==
    (op = "Unmarshal" /\ IsTerror(sent) /\ SentErr.IsRetryable # NilBool) =>
        /\ RetErr.IsRetryable # NilBool
        /\ Deref(RetErr.IsRetryable) = Deref(SentErr.IsRetryable)
        /\ IsSuccessor(RetErr.MarshalCount, SentErr.MarshalCount)

\* C4: marshalCount counts hops: Marshal adds exactly 1, Unmarshal copies the
\* count, and Wrap, Augment and NewInternalWithCause of an Error keep it, so
\* a hop (Marshal, then Unmarshal) takes the count n to n + 1.
C4_HopCounter ==
    /\ (op = "Marshal" /\ IsTerror(arg)) =>
          IsSuccessor(wire.MarshalCount, ArgErr.MarshalCount)
    /\ (op = "Unmarshal" /\ ~wire.isNil) =>
          RetErr.MarshalCount = wire.MarshalCount
    /\ (op = "Unmarshal" /\ IsTerror(sent)) =>
          IsSuccessor(RetErr.MarshalCount, SentErr.MarshalCount)
    /\ (op \in {"Wrap", "Augment", "NewInternalWithCause"} /\ IsTerror(arg)) =>
          RetErr.MarshalCount = ArgErr.MarshalCount

\* C5: Is(err, parts...) is true if and only if some Error visited on the
\* walk from err through cause links that are Errors has a code that starts
\* with the parts joined by "."; nil and foreign errors give false.
C5_IsWalksCauses ==
    op = "Is" =>
        (out <=> /\ IsTerror(arg)
                 /\ \E w \in Walks(heap, arg) :
                       HasPrefix(heap[w[Len(w)]].Code, Join(in.parts, Dot)))

\* Is matched not_found on a cause although the error's own code is another
C5_Witness ==
    /\ op = "Is" /\ out /\ IsTerror(arg)
    /\ in.parts = <<ErrNotFound>>
    /\ ~HasPrefix(ArgErr.Code, ErrNotFound)

\* C6: Retryable() returns the flag when it is set; when it is unset it
\* returns true if and only if the code starts with internal_service,
\* timeout, unknown or rate_limited.  Unexpected() returns the flag when it
\* is set and false otherwise.
C6_Resolution ==
    /\ op = "Retryable" =>
          out = IF ArgErr.IsRetryable # NilBool
                THEN ArgErr.IsRetryable = "true"
                ELSE \E c \in {ErrInternalService, ErrTimeout, ErrUnknown, ErrRateLimited} :
                        HasPrefix(ArgErr.Code, c)
    /\ op = "Unexpected" =>
          out = (ArgErr.IsUnexpected = "true")

\* Retryable() answered false for a retryable code, because of the flag
C6_Witness ==
    /\ op = "Retryable" /\ ~out
    /\ ArgErr.IsRetryable = "false"
    /\ HasPrefix(ArgErr.Code, ErrInternalService)

\* C7 as claimed: Wrap, Augment, Propagate and NewInternalWithCause of an
\* Error return an Error with the same retryable flag when that is set, and
\* with the same unexpected flag when that is set.
C7_ClassificationCarried ==
    (op \in {"Wrap", "Augment", "Propagate", "NewInternalWithCause"} /\ IsTerror(arg)) =>
        /\ ArgErr.IsRetryable # NilBool => RetErr.IsRetryable = ArgErr.IsRetryable
        /\ ArgErr.IsUnexpected # NilBool => RetErr.IsUnexpected = ArgErr.IsUnexpected

\* C7 amended: the four operations carry a set retryable flag forward; Wrap,
\* Augment and Propagate carry a set unexpected flag forward, and
\* NewInternalWithCause returns an Error whose unexpected flag is unset.
C7_RetryableCarried ==
    (op \in {"Wrap", "Augment", "Propagate", "NewInternalWithCause"} /\ IsTerror(arg)) =>
        /\ ArgErr.IsRetryable # NilBool => RetErr.IsRetryable = ArgErr.IsRetryable
        /\ (op # "NewInternalWithCause" /\ ArgErr.IsUnexpected # NilBool) =>
              RetErr.IsUnexpected = ArgErr.IsUnexpected
        /\ op = "NewInternalWithCause" => RetErr.IsUnexpected = NilBool

\* NewInternalWithCause took an Error with both flags set
C7_Witness ==
    /\ op = "NewInternalWithCause" /\ IsTerror(arg)
    /\ ArgErr.IsRetryable = "false" /\ ArgErr.IsUnexpected = "true"
    /\ RetErr.IsRetryable = "false"

\* C8: Wrap(nil, p), Augment(nil, ctx, p) and Propagate(nil) return nil and
\* create nothing; Propagate(e) of an Error returns e itself and changes no
\* field of any Error.
C8_PassThrough ==
    [][ /\ (op' \in {"Wrap", "Augment", "Propagate"} /\ arg' = NilRef) =>
              (ret' = NilRef /\ heap' = heap)
        /\ (op' = "Propagate" /\ IsTerror(arg')) =>
              (ret' = arg' /\ heap' = heap) ]_vars

\* Propagate was given an Error and returned it
C8_Witness ==
    op = "Propagate" /\ IsTerror(arg) /\ ret = arg

\* C9: Augment(e, ctx, p) of an Error e returns a new Error with message
\* ctx, params the merge of e's params with p, the code, flags and
\* marshalCount of e, an empty stack and cause e; augmenting
\* NotFound("foo", "failed to find foo", nil) with "added context" renders as
\* "not_found.foo: added context: failed to find foo".
C9_AugmentOfError ==
    (op = "Augment" /\ IsTerror(arg)) =>
        /\ IsTerror(ret) /\ ret # arg
        /\ RetErr.Message = in.message
        /\ IsMerge(RetErr.Params, ArgErr.Params, in.params)
        /\ RetErr.Code = ArgErr.Code
        /\ RetErr.IsRetryable = ArgErr.IsRetryable
        /\ RetErr.IsUnexpected = ArgErr.IsUnexpected
        /\ RetErr.MarshalCount = ArgErr.MarshalCount
        /\ RetErr.StackFrames = <<>>
        /\ RetErr.cause = arg
        /\ ( /\ ArgErr.Code = <<"not_found", ".", "foo">>
             /\ ArgErr.Message = <<"failed to find foo">>
             /\ ArgErr.cause = NilRef
             /\ in.message = <<"added context">> ) =>
              Error(heap, ret) = <<"not_found", ".", "foo", ": ", "added context",
                                   ": ", "failed to find foo">>

\* Augment added context to an Error that has a stack and params
C9_Witness ==
    /\ op = "Augment" /\ IsTerror(arg)
    /\ ArgErr.StackFrames # <<>>
    /\ ArgErr.Code = <<"not_found", ".", "foo">>
    /\ in.params.kv # {}
    /\ Error(heap, ret) = <<"not_found", ".", "foo", ": ", "added context",
                            ": ", "failed to find foo">>

\* C10: Wrap(e, p) of an Error e returns a copy whose params hold every key
\* of e.params and of p, p's value winning on a collision, and whose other
\* fields are e's; so Wrap(e, p).Error() equals e.Error().
C10_WrapOfError ==
    (op = "Wrap" /\ IsTerror(arg)) =>
        /\ IsTerror(ret) /\ ret # arg
        /\ IsMerge(RetErr.Params, ArgErr.Params, in.params)
        /\ RetErr.Code = ArgErr.Code
        /\ RetErr.Message = ArgErr.Message
        /\ RetErr.StackFrames = ArgErr.StackFrames
        /\ RetErr.cause = ArgErr.cause
        /\ RetErr.IsRetryable = ArgErr.IsRetryable
        /\ RetErr.IsUnexpected = ArgErr.IsUnexpected
        /\ RetErr.MessageChain = ArgErr.MessageChain
        /\ RetErr.MarshalCount = ArgErr.MarshalCount
        /\ Error(heap, ret) = Error(heap, arg)

\* Wrap replaced the value of a key the Error already had
C10_Witness ==
    /\ op = "Wrap" /\ IsTerror(arg)
    /\ <<"key", "old">> \in ArgErr.Params.kv
    /\ <<"key", "new">> \in RetErr.Params.kv
    /\ <<"key", "old">> \notin RetErr.Params.kv

C13_InternalWithCause ==
    op = "NewInternalWithCause" =>
        /\ IsTerror(ret)
        /\ RetErr.Code = IF in.code = EmptyStr THEN <<"internal_service">>
                         ELSE <<"internal_service", ".">> \o in.code
        /\ RetErr.Message = in.message
        /\ RetErr.cause = arg
        /\ IsTerror(arg) =>
              /\ Len(RetErr.MessageChain) = Len(ArgErr.MessageChain) + 1
              /\ RetErr.MessageChain[1] = ArgErr.Message
              /\ \A i \in 1..Len(ArgErr.MessageChain) :
                    RetErr.MessageChain[i + 1] = ArgErr.MessageChain[i]
        /\ IsForeign(arg) => RetErr.MessageChain = <<arg.msg>>
        /\ ( /\ IsTerror(arg)
             /\ ArgErr.Message = <<"inner terror">>
             /\ ArgErr.cause = ForeignRef(<<"wrapped error">>, "nil") ) =>
              RetErr.MessageChain = << <<"inner terror">>, <<"wrapped error">> >>

\* NewInternalWithCause was nested over the foreign error "wrapped error"
C13_Witness ==
    /\ op = "NewInternalWithCause" /\ IsTerror(arg)
    /\ ArgErr.Message = <<"inner terror">>
    /\ ArgErr.cause = ForeignRef(<<"wrapped error">>, "nil")
    /\ in.code = <<"sub">>
    /\ RetErr.MessageChain = << <<"inner terror">>, <<"wrapped error">> >>

\* C20: for an Error e with marshalCount >= 0, Marshal(e).marshalCount is
\* e.marshalCount + 1 and is not negative, also when e.marshalCount is
\* 2^31 - 1.
C20_CountNeverDecreases ==
    (op = "Marshal" /\ IsTerror(arg) /\ ArgErr.MarshalCount >= 0) =>
        /\ IsSuccessor(wire.MarshalCount, ArgErr.MarshalCount)
        /\ wire.MarshalCount >= 0

\* the Errors on the cause chain of err, in order, up to the first link that
\* is not an Error
Chain(h, err) ==
    CHOOSE w \in Walks(h, err) : h[w[Len(w)]].cause.tag # "terror"

\* the messages Error() renders after the code: one per Error of the chain,
\* then the rendered string of the foreign error that ends it, if any
ChainMessages(h, err) ==
    LET w == Chain(h, err)
        last == h[w[Len(w)]].cause
    IN  [i \in 1..Len(w) |-> h[w[i]].Message]
            \o (IF last.tag = "foreign" THEN <<last.msg>> ELSE <<>>)

\* C12: Error() of an Error with a cause is the code, ": ", and the messages
\* of the Errors along the cause chain joined by ": ", ending with the
\* rendered string of the first foreign link; without a cause it is the
\* message alone for an empty code, the code alone for an empty message and
\* "<code>: <message>" otherwise; New("service.foo", "bad", nil).Error() is
\* "service.foo: bad".
C12_ErrorRendering ==
    (op = "Error" /\ IsTerror(arg)) =>
        /\ ArgErr.cause # NilRef =>
              text = ArgErr.Code \o Colon \o Join(ChainMessages(heap, arg), Colon)
        /\ ArgErr.cause = NilRef =>
              /\ ArgErr.Code = EmptyStr => text = ArgErr.Message
              /\ ArgErr.Message = EmptyStr => text = ArgErr.Code
              /\ (ArgErr.Code # EmptyStr /\ ArgErr.Message # EmptyStr) =>
                    text = ArgErr.Code \o Colon \o ArgErr.Message
        /\ ( /\ ArgErr.Code = <<"service", ".", "foo">>
             /\ ArgErr.Message = <<"bad">>
             /\ ArgErr.cause = NilRef ) =>
              text = <<"service", ".", "foo", ": ", "bad">>

\* Error() rendered a chain of two Errors that ends in a foreign error
C12_Witness ==
    /\ op = "Error" /\ IsTerror(arg)
    /\ IsTerror(ArgErr.cause)
    /\ IsForeign(heap[ArgErr.cause.id].cause)
    /\ text = <<"internal_service", ": ", "added context", ": ",
                "inner terror", ": ", "wrapped error">>

\* C14: IsRetryable(err) is false for nil, the Error's Retryable() for an
\* Error, the answer of Retryable() for a foreign error that has the method,
\* and true for any other foreign error.
C14_IsRetryableTotal ==
    op = "IsRetryable" =>
        /\ arg = NilRef => out = FALSE
        /\ IsTerror(arg) =>
              \A stk \in CapturedStacks : out = Retryable(heap, arg, stk)
        /\ (IsForeign(arg) /\ arg.cap # "nil") => out = Deref(arg.cap)
        /\ (IsForeign(arg) /\ arg.cap = "nil") => out = TRUE

\* IsRetryable was asked about a foreign error whose Retryable() is true
C14_Witness ==
    op = "IsRetryable" /\ IsForeign(arg) /\ arg.cap = "true" /\ out = TRUE

\* C19: for every Error p and size limit L, the string that
\* StackStringWithMaxSize(p, L) returns is at most L long, and StackString()
\* returns at most 32000 characters.
C19_SizeBudget ==
    /\ op = "StackStringWithMaxSize" => Len(text) <= in.size
    /\ op = "StackString" => Len(text) <= DefaultSizeLimit

\* C15: every traversal of a cause chain (Error()/ErrorMessage(),
\* StackString(), Is) visits at most a fixed number of links, also on a chain
\* that leads back to itself.
C15_TraversalBounded ==
    depth <= maxCausalDepth + 1

\* C17: SetIsRetryable(v) on an Error e makes e's retryable flag explicit
\* with value v and changes nothing else, in e or in any other Error
\* (those derived from e by Wrap or Augment keep their flags); likewise
\* SetIsUnexpected; and no setter call makes an explicit flag unset.
C17_SettersFrame ==
    [][ /\ op' = "SetIsRetryable" =>
              /\ heap'[arg'.id].IsRetryable = AddrOf(in'.value)
              /\ heap' = [heap EXCEPT ![arg'.id].IsRetryable = AddrOf(in'.value)]
        /\ op' = "SetIsUnexpected" =>
              /\ heap'[arg'.id].IsUnexpected = AddrOf(in'.value)
              /\ heap' = [heap EXCEPT ![arg'.id].IsUnexpected = AddrOf(in'.value)]
        /\ op' \in {"SetIsRetryable", "SetIsUnexpected"} =>
              \A i \in 1..Len(heap) :
                  /\ heap[i].IsRetryable # NilBool => heap'[i].IsRetryable # NilBool
                  /\ heap[i].IsUnexpected # NilBool => heap'[i].IsUnexpected # NilBool
      ]_vars

\* a setter changed the flag of an Error from which another Error, which
\* keeps the old flag, had been derived by Augment
C17_Witness ==
    /\ op = "SetIsRetryable" /\ in.value = FALSE
    /\ ArgErr.IsRetryable = AddrOf(FALSE)
    /\ \E j \in 1..Len(heap) :
          /\ heap[j].cause = arg
          /\ heap[j].IsRetryable = AddrOf(TRUE)

\* C16: for an Error e and params p, Wrap(e, p) and Augment(e, ctx, p) leave
\* e.params, p and every other Error as they were, the result's params is a
\* map that neither e nor p nor any earlier Error refers to, and a write
\* into the result's params afterwards changes neither e.params nor p.
C16_ParamsNotShared ==
    [][ /\ (op' \in {"Wrap", "Augment"} /\ IsTerror(arg')) =>
              /\ \A i \in 1..Len(heap) : heap'[i] = heap[i]
              /\ in'.params \in ParamInputs
              /\ ~heap'[ret'.id].Params.isNil
              /\ heap'[ret'.id].Params.id # in'.params.id
              /\ \A i \in 1..Len(heap) :
                    heap'[ret'.id].Params.id # heap[i].Params.id
        /\ ( /\ op' = "SetParam"
             /\ op \in {"Wrap", "Augment", "SetParam"}
             /\ IsTerror(arg) ) =>
              /\ heap'[ret.id].Params.kv # heap[ret.id].Params.kv
              /\ heap'[arg.id].Params = heap[arg.id].Params
              /\ in'.params = in.params
      ]_vars

\* the caller replaced, in the params of a Wrap or Augment result, the value
\* of a key that the wrapped Error keeps
C16_Witness ==
    /\ op = "SetParam" /\ IsTerror(arg)
    /\ <<"key", "old">> \in ArgErr.Params.kv
    /\ <<"key", "set">> \in RetErr.Params.kv
    /\ in.params.isNil

\* C18: in every interleaving of threads that call Error(), Retryable(), Is,
\* Marshal, Wrap, Augment or NewInternalWithCause on a shared Error, each
\* call returns what it returns when run alone, and no call writes to an
\* Error that exists (its params, stack and messageChain included).
C18_SharedReads ==
    [][ /\ \A i \in 1..Len(heap) : heap'[i] = heap[i]
        /\ \A t \in Threads :
              threads'[t].pc = "done" => threads'[t].res = threads'[t].alone
      ]_vars

\* one thread has augmented the Error that another has rendered
C18_Witness ==
    /\ threads["t1"].pc = "done" /\ threads["t2"].pc = "done"
    /\ threads["t1"].e = threads["t2"].e
    /\ threads["t1"].name = "Augment" /\ threads["t2"].name = "Error"
    /\ Len(threads["t1"].res[1].err) = 1
    /\ threads["t2"].res[1].text # EmptyStr

C22_NilCodec ==
    /\ (op = "Marshal" /\ arg = NilRef) =>
          /\ ~wire.isNil
          /\ wire.Code = ErrUnknown
          /\ wire.Message = <<"Unknown error, nil error marshalled">>
          /\ wire.Params.isNil
          /\ wire.Stack = <<>>
          /\ wire.Retryable = NilBool /\ wire.Unexpected = NilBool
          /\ wire.MessageChain = <<>>
          /\ wire.MarshalCount = 0
    /\ (op = "Unmarshal" /\ wire.isNil) =>
          /\ IsTerror(ret)
          /\ RetErr.Code = ErrUnknown
          /\ RetErr.Message = <<"Nil error unmarshalled!">>
          /\ ~RetErr.Params.isNil /\ RetErr.Params.kv = {}
          /\ RetErr.IsRetryable = NilBool /\ RetErr.IsUnexpected = NilBool
          /\ RetErr.cause = NilRef

\* a nil record was decoded into an Error of code "unknown"
C22_Witness ==
    /\ op = "Unmarshal" /\ wire.isNil
    /\ IsTerror(ret) /\ RetErr.Code = ErrUnknown /\ ~RetErr.Params.isNil

\* the code PrefixMatches tests: the Error's own, internal_service for a
\* foreign error
MatchedCode == IF IsTerror(arg) THEN ArgErr.Code ELSE ErrInternalService

C24_InternalRetryability ==
    (op = "NewInternalWithCause" /\ IsTerror(arg)) =>
        /\ RetErr.IsRetryable = ArgErr.IsRetryable
        /\ HasPrefix(RetErr.Code, ErrInternalService)
        /\ \A stk \in CapturedStacks :
              Retryable(heap, ret, stk) =
                  IF ArgErr.IsRetryable # NilBool
                  THEN ArgErr.IsRetryable = "true"
                  ELSE TRUE

\* the cause has code not_found.foo and no flag, so it is not retryable; the
\* Error made of it, under a subCode, has no flag and is retryable
C24_Witness ==
    /\ op = "NewInternalWithCause" /\ IsTerror(arg)
    /\ ArgErr.IsRetryable = NilBool /\ HasPrefix(ArgErr.Code, ErrNotFound)
    /\ \A stk \in CapturedStacks : ~Retryable(heap, arg, stk)
    /\ in.code # EmptyStr
    /\ RetErr.IsRetryable = NilBool
    /\ \A stk \in CapturedStacks : Retryable(heap, ret, stk)

\* C25: when NewInternalWithCause, Augment or Propagate builds an Error
\* around a foreign cause f: if f has a Retryable() method the new Error's
\* retryable flag is set to what it returns, so Retryable() is false for an
\* f that reports false despite the internal_service code; otherwise the
\* flag is unset and resolved from the code.  The unexpected flag is unset
\* in both cases.
C25_ForeignRetryability ==
    (op \in {"NewInternalWithCause", "Augment", "Propagate"} /\ IsForeign(arg)) =>
        /\ IsTerror(ret)
        /\ HasPrefix(RetErr.Code, ErrInternalService)
        /\ RetErr.IsRetryable = IF arg.cap # "nil" THEN arg.cap ELSE NilBool
        /\ RetErr.IsUnexpected = NilBool
        /\ \A stk \in CapturedStacks :
              Retryable(heap, ret, stk) = (arg.cap # "false")

\* Augment was given a foreign error that reports false: the Error it
\* returned has the flag set to false and is not retryable
C25_Witness ==
    /\ op = "Augment" /\ IsForeign(arg) /\ arg.cap = "false"
    /\ RetErr.Code = ErrInternalService
    /\ RetErr.IsRetryable = "false"
    /\ \A stk \in CapturedStacks : ~Retryable(heap, ret, stk)

\* the code of the Error marshalled, as it is after the hop
SentCode == IF SentErr.Code = EmptyStr THEN ErrUnknown ELSE SentErr.Code

\* C26: Unmarshal never populates cause, and the message chain survives the
\* hop: Unmarshal(Marshal(e)) has no cause and e's messageChain, so Is of it
\* is decided by e's own code alone ("unknown" if empty), and is false for a
\* code that Is(e, parts...) matched only through a cause link.
C26_HopDropsCause ==
    (op = "Unmarshal" /\ IsTerror(sent)) =>
        /\ RetErr.cause = NilRef
        /\ RetErr.MessageChain = SentErr.MessageChain
        /\ \A parts \in PartsInputs :
              /\ Is(heap, ret, parts) <=> HasPrefix(SentCode, Join(parts, Dot))
              /\ ( /\ Is(heap, sent, parts)
                   /\ ~HasPrefix(SentErr.Code, Join(parts, Dot)) ) =>
                     ~Is(heap, ret, parts)

\* an internal_service Error whose cause has code not_found.foo crossed the
\* wire: Is(e, not_found) held before the hop and does not hold after it,
\* while the message of the cause is still in the chain
C26_Witness ==
    /\ op = "Unmarshal" /\ IsTerror(sent)
    /\ IsTerror(SentErr.cause)
    /\ Is(heap, sent, <<ErrNotFound>>)
    /\ ~Is(heap, ret, <<ErrNotFound>>)
    /\ RetErr.MessageChain = <<heap[SentErr.cause.id].Message>>

\* no two Errors on err's cause chain carry different codes
SameCodes(h, err) ==
    IsTerror(err) =>
        \A w \in Walks(h, err) : h[w[Len(w)]].Code = h[err.id].Code

Links(h, err) ==
    LET w == Chain(h, err)
    IN  Len(w) - 1 + (IF h[w[Len(w)]].cause.tag = "foreign" THEN 1 ELSE 0)

\* the Error at the root of err's chain
Root(h, err) == LET w == Chain(h, err) IN TerrorRef(w[Len(w)])

\* the entries of err's messageChain beyond its links
History(h, err) ==
    SubSeq(h[err.id].MessageChain, Links(h, err) + 1, Len(h[err.id].MessageChain))

\* C28: rendering and messageChain stay in step: for every Error e built by
\* New, Unmarshal, Augment, Propagate, NewInternalWithCause and Wrap of an
\* Error, with d links on its cause chain (a terminating foreign link
\* counted), messageChain has at least d entries and ErrorMessage() is e's
\* message followed by the first d entries of messageChain, joined by ": ";
\* the entries beyond d are the history Unmarshal received at the root of
\* the chain.
C28_ChainInStep ==
    /\ \A e \in Terrors(heap) :
          /\ Len(heap[e.id].MessageChain) >= Links(heap, e)
          /\ ErrorMessage(heap, e) =
                Join(<<heap[e.id].Message>>
                        \o SubSeq(heap[e.id].MessageChain, 1, Links(heap, e)),
                     Colon)
          /\ History(heap, e) = History(heap, Root(heap, e))
    /\ op = "ErrorMessage" =>
          text = Join(<<ArgErr.Message>>
                         \o SubSeq(ArgErr.MessageChain, 1, Links(heap, arg)),
                      Colon)
    /\ op = "New" => History(heap, ret) = <<>>
    /\ (op \in {"Augment", "Propagate", "NewInternalWithCause"} /\ IsForeign(arg)) =>
          History(heap, ret) = <<>>
    /\ op = "Unmarshal" => History(heap, ret) = wire.MessageChain

\* ErrorMessage() rendered an Error one link above a decoded Error that had
\* received a history of two entries
C28_Witness ==
    /\ op = "ErrorMessage"
    /\ Links(heap, arg) = 1
    /\ History(heap, arg) = <<<<"4">>, <<"3">>>>
    /\ text = ArgErr.Message \o Colon \o ArgErr.MessageChain[1]

\* the links on the chain of any error value
LinksOf(h, err) == IF IsTerror(err) THEN Links(h, err) ELSE 0

\* C29: no sequence of public operations builds a cyclic cause chain: New
\* and Unmarshal return an Error with no cause, Wrap of an Error keeps the
\* cause chain of its input, and Augment, NewInternalWithCause and Propagate
\* of a foreign error return a fresh Error whose chain is one link longer
\* than its input's; so the cause of every Error was there before the Error,
\* and the traversals of Error() and Is end after at most one step per
\* Error and one for a foreign link.
C29_NoCycle ==
    /\ \A i \in 1..Len(heap) :
          IsTerror(heap[i].cause) => heap[i].cause.id < i
    /\ op \in {"New", "Unmarshal"} => RetErr.cause = NilRef
    /\ (op = "Wrap" /\ IsTerror(arg)) =>
          /\ ret.id = Len(heap) /\ ret # arg
          /\ RetErr.cause = ArgErr.cause
          /\ Links(heap, ret) = Links(heap, arg)
    /\ ( \/ op \in {"Augment", "NewInternalWithCause"} /\ arg # NilRef
         \/ op = "Propagate" /\ IsForeign(arg) ) =>
          /\ ret.id = Len(heap) /\ ret # arg
          /\ \A e \in Terrors(heap) : heap[e.id].cause # ret
          /\ RetErr.cause = arg
          /\ Links(heap, ret) = LinksOf(heap, arg) + 1
    /\ depth <= Len(heap) + 1
    /\ (op \in {"ErrorMessage", "Is"} /\ depth = Len(heap) + 1) => link = NilRef

\* the traversal of ErrorMessage() came to the end of a chain of two links,
\* an Error and the foreign error below it
C29_Witness ==
    /\ op = "ErrorMessage" /\ link = NilRef /\ depth = 3
    /\ Links(heap, arg) = 2
    /\ IsTerror(ArgErr.cause) /\ IsForeign(heap[ArgErr.cause.id].cause)

\* the frames of the Errors along err's chain, one block per Error with
\* frames, in chain order
Blocks(h, err) ==
    LET w == Chain(h, err)
    IN  SelectSeq([i \in 1..Len(w) |-> h[w[i]].StackFrames], LAMBDA b : b # <<>>)

\* a block as it is written: one line per frame
RECURSIVE BlockLines(_)
BlockLines(frames) ==
    IF frames = <<>> THEN EmptyStr
    ELSE FrameLine(Head(frames)) \o BlockLines(Tail(frames))

\* the blocks with a divider line between two of them
RECURSIVE Divided(_)
Divided(blocks) ==
    IF blocks = <<>> THEN EmptyStr
    ELSE IF Len(blocks) = 1 THEN BlockLines(blocks[1])
    ELSE BlockLines(blocks[1]) \o Divider \o Divided(Tail(blocks))

\* a divider line starts at position i of s
DividerAt(s, i) ==
    /\ i + 3 <= Len(s)
    /\ SubSeq(s, i, i + 3) = Divider
    /\ i + 3 < Len(s) => s[i + 4] = "\n"

\* C30: StackString renders each frame as a line
\* "  <filename>:<line> in <method>" in chain order and writes the divider
\* line "---" only between the frame blocks of two Error links that both
\* carry frames: in every output, truncated or not, the divider is never the
\* first line, never the last line and never directly followed by another
\* divider; a link without frames contributes no divider.
C30_DividerBetweenBlocks ==
    op \in {"StackString", "StackStringWithMaxSize"} =>
        /\ HasPrefix(Divided(Blocks(heap, arg)), text)
        /\ op = "StackString" => text = Divided(Blocks(heap, arg))
        /\ ~DividerAt(text, 1)
        /\ \A i \in 1..Len(text) :
              DividerAt(text, i) =>
                  /\ i + 3 < Len(text)
                  /\ ~DividerAt(text, i + 4)

====
